---- MODULE Spec2Model ----
(***************************************************************************)
(* Model of happysad.py: per-instance class swapping ("happy" = synthetic  *)
(* class, "sad" = original class), the bookkeeping of shadowed attributes, *)
(* the descriptors installed on synthetic classes and the three context    *)
(* managers happy / sad / saddest.                                         *)
(*                                                                         *)
(* Python objects are modelled by what the code reads and writes of them:  *)
(*   cls[i]            inst.__class__                                      *)
(*   synth[i]          inst._Xsynthetic_classX   (None when not set)       *)
(*   orig[i]           inst._Xoriginal_classX    (None when not set)       *)
(*   own[i][n]         inst.__dict__[n]          (Absent when not set)     *)
(*   bookeeping[t][n]  t.bookeeping[n] of synthetic class t                *)
(*   descriptors[t][n] the descriptor set on synthetic class t for name n  *)
(*   ntypes            the synthetic classes created so far                *)
(*   target            T.parameter of the object T a MemberView looks at   *)
(*   stack             the context managers that are open, innermost last  *)
(* A synthetic class is an integer 1..MaxTypes, in order of creation.      *)
(* kept and wrote are history variables, read by the properties only.      *)
(***************************************************************************)
EXTENDS Integers, Sequences, FiniteSets, TLC

\* ---- bounds
MaxTypes == 2        \* synthetic classes that can be created in one run
MaxDepth == 2        \* nesting depth of context managers
MaxVal   == 2        \* attribute values are 1..MaxVal

\* ---- the universe
Insts  == {"m1", "m2"}
Names  == {"price"}
Values == 1..MaxVal
Types  == 1..MaxTypes

Mango  == 0          \* the original class of the instances
None   == 0 - 1      \* Python None / reserved attribute not set
NoInst == 0 - 2      \* the instance has not been constructed yet
Absent == 0          \* name not in inst.__dict__ / key not in a dict

AttrVal == Values \cup {Absent}

\* ---- descriptors (RetrievableDescriptor and its subclasses)
valid_on_set == {"pass", "fail", "set"}

NoDescr == [kind |-> "none", val |-> Absent, on_set |-> "pass"]

ControlledSetter(val, on_set) == [kind |-> "ControlledSetter", val |-> val, on_set |-> on_set]

\* MemberView(viewed_object, parameter): the viewed object is the one
\* external target T of the model and the parameter its attribute `target`.
MemberView(on_set) == [kind |-> "MemberView", val |-> Absent, on_set |-> on_set]

Descriptors == {ControlledSetter(v, p) : v \in Values, p \in valid_on_set}
               \cup {MemberView(p) : p \in valid_on_set}

VARIABLES cls, synth, orig, own, bookeeping, descriptors, ntypes, target,
          stack, kept, wrote

vars == <<cls, synth, orig, own, bookeeping, descriptors, ntypes, target,
          stack, kept, wrote>>

\* The objects of the program as one record, so that the functions of the
\* module can be written as operators from heap to heap.
Heap == [cls |-> cls, synth |-> synth, orig |-> orig, own |-> own,
         bookeeping |-> bookeeping, descriptors |-> descriptors,
         ntypes |-> ntypes, target |-> target]

EmptyDict == [n \in Names |-> Absent]
NoDescrs  == [n \in Names |-> NoDescr]

\* An outcome of a call: the heap it leaves and the exception it raised
\* ("" when it returned).
Ok(h)        == [h |-> h, exc |-> ""]
Raise(h, e)  == [h |-> h, exc |-> e]

\* Names in a fixed order, for the loops over dictionaries.
RECURSIVE SetToSeq(_)
SetToSeq(S) == IF S = {} THEN <<>>
               ELSE LET x == CHOOSE y \in S : TRUE IN <<x>> \o SetToSeq(S \ {x})

NameSeq == SetToSeq(Names)

\* ---- Python attribute protocol on an instance
IsSynthetic(c) == c \in Types

\* the data descriptor found on type(inst) for name n, NoDescr if none
ClassDescr(h, i, n) == IF IsSynthetic(h.cls[i]) THEN h.descriptors[h.cls[i]][n] ELSE NoDescr

\* A _get_hook that reads the value the descriptor holds, whatever its kind.
_get_hook_held(h, d) == d.val

_get_hook(h, d) == IF d.kind = "MemberView" THEN h.target ELSE d.val

\* getattr(inst, n): Absent stands for AttributeError
getattr(h, i, n) ==
    LET d == ClassDescr(h, i, n) IN
    IF d.kind # "none" THEN _get_hook(h, d) ELSE h.own[i][n]

_set_hook(h, t, n, value) ==
    IF h.descriptors[t][n].kind = "MemberView"
    THEN [h EXCEPT !.target = value]
    ELSE [h EXCEPT !.descriptors[t][n].val = value]

\* A __set__ that does not look at on_set and calls the hook.
__set__unchecked(h, t, n, value) == Ok(_set_hook(h, t, n, value))

\* A __set__ where on_set='pass' falls through to the hook.
__set__pass_sets(h, t, n, value) ==
    IF h.descriptors[t][n].on_set = "fail" THEN Raise(h, "Exception")
    ELSE Ok(_set_hook(h, t, n, value))

\* RetrievableDescriptor.__set__
__set__(h, t, n, value) ==
    LET d == h.descriptors[t][n] IN
    IF d.on_set = "fail" THEN Raise(h, "Exception")
    ELSE IF d.on_set = "set" THEN Ok(_set_hook(h, t, n, value))
    ELSE Ok(h)

\* setattr(inst, n, value)
setattr(h, i, n, value) ==
    IF ClassDescr(h, i, n).kind # "none"
    THEN __set__(h, h.cls[i], n, value)
    ELSE Ok([h EXCEPT !.own[i][n] = value])

\* delattr(inst, n): a descriptor with __set__ and no __delete__ raises
\* AttributeError, and so does a name that is not in inst.__dict__
delattr(h, i, n) ==
    IF ClassDescr(h, i, n).kind # "none" THEN Raise(h, "AttributeError")
    ELSE IF h.own[i][n] = Absent THEN Raise(h, "AttributeError")
    ELSE Ok([h EXCEPT !.own[i][n] = Absent])


\* ---- Synthetic/Original classes swapping

_original_class(h, i) == IF h.orig[i] # None THEN h.orig[i] ELSE h.cls[i]

_synthetic_class(h, i) == h.synth[i]

\* One turn of the loop of _delete_old_attrs:
\*   try: bookkept[attr] = getattr(inst, attr); delattr(inst, attr)
\*   except AttributeError: pass
delete_old_attr(h, i, t, n) ==
    LET v == getattr(h, i, n) IN
    IF v = Absent THEN h
    ELSE delattr([h EXCEPT !.bookeeping[t][n] = v], i, n).h

RECURSIVE delete_old_loop(_, _, _, _)
delete_old_loop(h, i, t, names) ==
    IF names = <<>> THEN h
    ELSE LET n == Head(names) IN
         delete_old_loop(IF h.bookeeping[t][n] # Absent THEN delete_old_attr(h, i, t, n) ELSE h,
                         i, t, Tail(names))

\* A guard that lets the loop run whatever the class of the instance.
delete_guard_always(h, i) == TRUE

\* The guard of _delete_old_attrs: the instance is of its original class.
delete_guard(h, i) == h.cls[i] = _original_class(h, i)

\* _bookkept_attrs(inst) raises AttributeError when there is no synthetic
\* class: None.bookeeping
_delete_old_attrs(h, i) ==
    IF delete_guard(h, i)
    THEN IF _synthetic_class(h, i) = None THEN Raise(h, "AttributeError")
         ELSE Ok(delete_old_loop(h, i, _synthetic_class(h, i), NameSeq))
    ELSE Ok(h)

\* inst.__class__ = None is a TypeError
_set_synthetic(h, i) ==
    LET d == _delete_old_attrs(h, i) IN
    IF d.exc # "" THEN d
    ELSE IF _synthetic_class(d.h, i) = None THEN Raise(d.h, "TypeError")
    ELSE Ok([d.h EXCEPT !.cls[i] = _synthetic_class(d.h, i)])

\* The loop of _reset_old_attrs: setattr(inst, attr, val) for every item
RECURSIVE reset_old_loop(_, _, _, _)
reset_old_loop(h, i, t, names) ==
    IF names = <<>> THEN Ok(h)
    ELSE LET n == Head(names)
             r == IF h.bookeeping[t][n] # Absent
                  THEN setattr(h, i, n, h.bookeeping[t][n]) ELSE Ok(h) IN
         IF r.exc # "" THEN r ELSE reset_old_loop(r.h, i, t, Tail(names))

_reset_old_attrs(h, i) ==
    IF h.cls[i] = _original_class(h, i)
    THEN IF _synthetic_class(h, i) = None THEN Raise(h, "AttributeError")
         ELSE reset_old_loop(h, i, _synthetic_class(h, i), NameSeq)
    ELSE Ok(h)

_set_original(h, i) ==
    _reset_old_attrs([h EXCEPT !.cls[i] = _original_class(h, i)], i)

\* A _create_synthetic_class that keeps one synthetic class per original
\* class and hands it out again.
_create_synthetic_class_cached(h) ==
    IF h.ntypes >= 1 THEN h
    ELSE [h EXCEPT !.ntypes = 1,
                   !.bookeeping[1] = EmptyDict,
                   !.descriptors[1] = NoDescrs]

\* type(cls.__name__, (cls,), {'XsyntheticX': True, 'bookeeping': {}}):
\* the new class is the next unused one, with an empty bookkeeping
\* dictionary and no descriptor.
_create_synthetic_class(h) ==
    [h EXCEPT !.ntypes = h.ntypes + 1,
              !.bookeeping[h.ntypes + 1] = EmptyDict,
              !.descriptors[h.ntypes + 1] = NoDescrs]

\* hasattr(inst, '_Xsynthetic_classX')
has_synthetic(h, i) == h.synth[i] # None

force_synthetic_class(h, i) ==
    LET h1 == IF ~has_synthetic(h, i)
              THEN LET c == _create_synthetic_class(h) IN
                   [c EXCEPT !.synth[i] = c.ntypes,
                             !.orig[i]  = h.cls[i],
                             !.cls[i]   = c.ntypes]
              ELSE h IN
    _set_synthetic(h1, i)

\* A maybe_synthetic_class that makes the synthetic class when there is none.
maybe_synthetic_class_creates(h, i) == force_synthetic_class(h, i)

\* try: _set_synthetic(inst)  except AttributeError: pass
maybe_synthetic_class(h, i) ==
    LET r == _set_synthetic(h, i) IN
    IF r.exc = "AttributeError" THEN Ok(r.h) ELSE r

\* try: _set_original(inst)  except AttributeError: pass
force_original_class(h, i) ==
    LET r == _set_original(h, i) IN
    IF r.exc = "AttributeError" THEN Ok(r.h) ELSE r

\* A forget that leaves _Xsynthetic_classX on the instance.
forget_keeps_reference(h, i) == force_original_class(h, i)

\* A forget that does not put the instance back in its original class first.
forget_without_original(h, i) == Ok([h EXCEPT !.synth[i] = None])

\* try: force_original_class(inst); delattr(inst, '_Xsynthetic_classX')
\* except AttributeError: pass
forget_synthetic_class(h, i) ==
    LET r == force_original_class(h, i) IN
    IF r.exc # "" THEN r
    ELSE Ok([r.h EXCEPT !.synth[i] = None])


\* ---- Context managers
\* A context manager that is between its yield and its exit is a frame:
\*   kind     "happy" (synthetic_class), "sad" (original_class) or
\*            "saddest" (no_synthetic_class)
\*   insts    the instances it was called with
\*   classes  current_classes / classes: inst.__class__ at entry
\*   synths   synth_classes: _synthetic_class(inst) at entry (cm only)
\* The other fields are history, read by the properties only:
\*   body     "empty" while nothing has been called in the body, "happy"
\*            while only happy scopes on the same instances have been opened
\*            in it, "any" otherwise
\*   pre      what each instance looked like at entry, kept while body is
\*            not "any"
Snap(h, i) ==
    [cls   |-> h.cls[i],
     synth |-> h.synth[i],
     orig  |-> h.orig[i],
     own   |-> h.own[i],
     book  |-> IF h.synth[i] = None THEN EmptyDict ELSE h.bookeeping[h.synth[i]],
     descr |-> IF h.synth[i] = None THEN NoDescrs ELSE h.descriptors[h.synth[i]]]

\* to_original = force_original_class if not forget else forget_synthetic_class
to_original(forget, h, i) ==
    IF forget THEN forget_synthetic_class(h, i) ELSE force_original_class(h, i)

\* cm, up to its yield: tuple(to_original(inst) for inst in insts), the calls
\* in order, stopping at the first exception
RECURSIVE cm_enter(_, _, _)
cm_enter(forget, h, insts) ==
    IF insts = <<>> THEN Ok(h)
    ELSE LET r == to_original(forget, h, Head(insts)) IN
         IF r.exc # "" THEN r ELSE cm_enter(forget, r.h, Tail(insts))

\* cm, after its yield, for one instance:
\*   if synth_class is not None:
\*       inst._Xsynthetic_classX = synth_class
\*       if current_class == _synthetic_class(inst): force_synthetic_class(inst)
cm_restore(h, i, current_class, synth_class) ==
    IF synth_class # None
    THEN LET h1 == [h EXCEPT !.synth[i] = synth_class] IN
         IF current_class = _synthetic_class(h1, i)
         THEN force_synthetic_class(h1, i) ELSE Ok(h1)
    ELSE Ok(h)

RECURSIVE cm_exit(_, _, _, _)
cm_exit(h, insts, classes, synths) ==
    IF insts = <<>> THEN Ok(h)
    ELSE LET r == cm_restore(h, Head(insts), Head(classes), Head(synths)) IN
         IF r.exc # "" THEN r
         ELSE cm_exit(r.h, Tail(insts), Tail(classes), Tail(synths))

\* synthetic_class, up to its yield:
\* tuple(force_synthetic_class(inst) for inst in insts)
RECURSIVE synthetic_class_enter(_, _)
synthetic_class_enter(h, insts) ==
    IF insts = <<>> THEN Ok(h)
    ELSE LET r == force_synthetic_class(h, Head(insts)) IN
         IF r.exc # "" THEN r ELSE synthetic_class_enter(r.h, Tail(insts))

\* synthetic_class, after its yield, for one instance:
\*   if cls == _original_class(inst): force_original_class(inst)
synthetic_class_restore(h, i, c) ==
    IF c = _original_class(h, i) THEN force_original_class(h, i) ELSE Ok(h)

RECURSIVE synthetic_class_exit(_, _, _)
synthetic_class_exit(h, insts, classes) ==
    IF insts = <<>> THEN Ok(h)
    ELSE LET r == synthetic_class_restore(h, Head(insts), Head(classes)) IN
         IF r.exc # "" THEN r
         ELSE synthetic_class_exit(r.h, Tail(insts), Tail(classes))

\* ---- Descriptors on instances

\* add_descriptors(inst, bookkeep_attrs, **{name: descriptor})
add_descriptors(h, i, bookkeep_attrs, name, descriptor) ==
    LET f == force_synthetic_class(h, i) IN
    IF f.exc # "" THEN f
    ELSE
    LET h1  == f.h
        c   == h1.cls[i]
        v   == getattr(h1, i, name)
        \* try: if bookkeep_attrs: bookkept[name] = getattr(inst, name)
        \*      delattr(inst, name)
        \* except AttributeError: pass
        h2  == IF bookkeep_attrs
               THEN IF v = Absent THEN h1
                    ELSE delattr([h1 EXCEPT !.bookeeping[h1.synth[i]][name] = v], i, name).h
               ELSE delattr(h1, i, name).h
    IN  Ok([h2 EXCEPT !.descriptors[c][name] = descriptor])

\* class_with_descriptors(cls, **{name: descriptor})
class_with_descriptors(h, name, descriptor) ==
    LET c == _create_synthetic_class(h) IN
    [c EXCEPT !.descriptors[c.ntypes][name] = descriptor]

\* intercept_creation(Mango, {name: descriptor}, price): Mango.__init__ runs
\* on an instance of the synthetic class, so its self.price = price goes
\* through the descriptor when the name is the descriptor's. When it raises
\* there is no instance.
intercept_creation(h, i, name, descriptor, price) ==
    LET c  == class_with_descriptors(h, name, descriptor)
        h1 == [c EXCEPT !.cls[i] = c.ntypes, !.own[i] = EmptyDict]
        r  == setattr(h1, i, "price", price)
    IN  IF r.exc # "" THEN Raise(c, r.exc)
        ELSE Ok([r.h EXCEPT !.synth[i] = c.ntypes, !.orig[i] = Mango])


\* ---- The state machine

InstTuples == {<<i>> : i \in Insts} \cup
              ({<<i, j>> : i \in Insts, j \in Insts} \ {<<i, i>> : i \in Insts})

Constructed(i) == cls[i] # NoInst

Init ==
    /\ cls = [i \in Insts |-> NoInst]
    /\ synth = [i \in Insts |-> None]
    /\ orig = [i \in Insts |-> None]
    /\ own = [i \in Insts |-> EmptyDict]
    /\ bookeeping = [t \in Types |-> EmptyDict]
    /\ descriptors = [t \in Types |-> NoDescrs]
    /\ ntypes = 0
    /\ target = 1
    /\ stack = <<>>
    /\ kept = [i \in Insts |-> {}]
    /\ wrote = [i \in Insts |-> EmptyDict]

\* at most MaxTypes synthetic classes are created: a call that would create
\* the k-th one beyond them is not made
Room(k) == ntypes + k <= MaxTypes

\* the instances among insts that have no synthetic class yet
RECURSIVE Unpatched(_)
Unpatched(insts) ==
    IF insts = <<>> THEN 0
    ELSE (IF synth[Head(insts)] = None THEN 1 ELSE 0) + Unpatched(Tail(insts))

\* The synthetic classes something still refers to: an instance, by its
\* __class__ or its _Xsynthetic_classX, or a local of an open context manager.
Live(h, st) ==
    {h.cls[i] : i \in Insts} \cup {h.synth[i] : i \in Insts}
    \cup UNION {{st[k].classes[j] : j \in 1..Len(st[k].insts)} : k \in 1..Len(st)}
    \cup UNION {{st[k].synths[j] : j \in 1..Len(st[k].insts)} : k \in 1..Len(st)}

\* The heap after a call. A synthetic class nothing refers to any more is out
\* of the program's reach: its dictionary and its descriptors go with it.
Store(h, st) ==
    /\ cls' = h.cls
    /\ synth' = h.synth
    /\ orig' = h.orig
    /\ own' = h.own
    /\ bookeeping' = [t \in Types |-> IF t \in Live(h, st) THEN h.bookeeping[t] ELSE EmptyDict]
    /\ descriptors' = [t \in Types |-> IF t \in Live(h, st) THEN h.descriptors[t] ELSE NoDescrs]
    /\ ntypes' = h.ntypes
    /\ target' = h.target
    /\ stack' = st

\* a call made in the body of every open context manager
Touched == [k \in 1..Len(stack) |-> [stack[k] EXCEPT !.body = "any", !.pre = <<>>]]

\* Mango(price)
construct(i, price) ==
    /\ ~Constructed(i)
    /\ Store([Heap EXCEPT !.cls[i] = Mango, !.own[i]["price"] = price], Touched)
    /\ UNCHANGED <<kept, wrote>>

create_with_joy(i, name, descriptor, price) ==
    /\ ~Constructed(i)
    /\ Room(1)
    /\ Store(intercept_creation(Heap, i, name, descriptor, price).h, Touched)
    /\ UNCHANGED <<kept, wrote>>

make_happy(i) ==
    /\ Constructed(i)
    /\ Room(Unpatched(<<i>>))
    /\ Store(force_synthetic_class(Heap, i).h, Touched)
    /\ UNCHANGED <<kept, wrote>>

maybe_happy(i) ==
    /\ Constructed(i)
    /\ Store(maybe_synthetic_class(Heap, i).h, Touched)
    /\ UNCHANGED <<kept, wrote>>

make_sad(i) ==
    /\ Constructed(i)
    /\ Store(force_original_class(Heap, i).h, Touched)
    /\ UNCHANGED <<kept, wrote>>

make_saddest(i) ==
    /\ Constructed(i)
    /\ Store(forget_synthetic_class(Heap, i).h, Touched)
    /\ UNCHANGED <<kept, wrote>>

\* kept (when the history is tracked): the names given with
\* bookkeep_attrs=True and a ControlledSetter
take_happy_pills(i, bookkeep_attrs, name, descriptor, track) ==
    /\ Constructed(i)
    /\ Room(Unpatched(<<i>>))
    /\ Store(add_descriptors(Heap, i, bookkeep_attrs, name, descriptor).h, Touched)
    /\ kept' = IF track /\ bookkeep_attrs /\ descriptor.kind = "ControlledSetter"
               THEN [kept EXCEPT ![i] = @ \cup {name}] ELSE kept
    /\ UNCHANGED wrote

InOriginal(i) == Constructed(i) /\ cls[i] = _original_class(Heap, i)

\* a sad scope on instance i is open
InSadScope(i) ==
    \E k \in 1..Len(stack) :
        stack[k].kind = "sad" /\ \E j \in 1..Len(stack[k].insts) : stack[k].insts[j] = i

\* inst.name = value, by the caller
\* wrote (when the history is tracked): the value given to a kept name by the
\* last write made while the instance was of its original class, when that
\* write was made in a sad scope; Absent when it was made elsewhere
set_attribute(i, name, value, track) ==
    /\ Constructed(i)
    /\ Store(setattr(Heap, i, name, value).h, Touched)
    /\ wrote' = IF track /\ InOriginal(i) /\ name \in kept[i]
                THEN [wrote EXCEPT ![i][name] = IF InSadScope(i) THEN value ELSE Absent]
                ELSE wrote
    /\ UNCHANGED kept

\* del inst.name, by the caller
del_attribute(i, name, track) ==
    /\ Constructed(i)
    /\ Store(delattr(Heap, i, name).h, Touched)
    /\ wrote' = IF track /\ InOriginal(i) /\ name \in kept[i]
                THEN [wrote EXCEPT ![i][name] = Absent] ELSE wrote
    /\ UNCHANGED kept

\* T.parameter = value, by the owner of the viewed object
set_target(value) ==
    /\ Store([Heap EXCEPT !.target = value], Touched)
    /\ UNCHANGED <<kept, wrote>>

Frame(kind, insts) ==
    [kind |-> kind, insts |-> insts,
     classes |-> [k \in 1..Len(insts) |-> cls[insts[k]]],
     synths  |-> [k \in 1..Len(insts) |->
                    IF kind = "happy" THEN None ELSE _synthetic_class(Heap, insts[k])],
     body |-> "empty",
     pre  |-> [k \in 1..Len(insts) |-> Snap(Heap, insts[k])]]

\* the open context managers after one more is entered
Entered(kind, insts) ==
    [k \in 1..Len(stack) |->
        IF kind = "happy" /\ stack[k].kind = "happy" /\ stack[k].insts = insts
           /\ stack[k].body # "any"
        THEN [stack[k] EXCEPT !.body = "happy"]
        ELSE [stack[k] EXCEPT !.body = "any", !.pre = <<>>]]
    \o <<Frame(kind, insts)>>

\* with happy(*insts): up to the body
happy_enter(insts) ==
    /\ Len(stack) < MaxDepth
    /\ \A k \in 1..Len(insts) : Constructed(insts[k])
    /\ Room(Unpatched(insts))
    /\ LET r == synthetic_class_enter(Heap, insts) IN
       /\ r.exc = ""
       /\ Store(r.h, Entered("happy", insts))
    /\ UNCHANGED <<kept, wrote>>

\* with sad(*insts): / with saddest(*insts): up to the body
sad_enter(kind, insts) ==
    /\ Len(stack) < MaxDepth
    /\ \A k \in 1..Len(insts) : Constructed(insts[k])
    /\ LET r == cm_enter(kind = "saddest", Heap, insts) IN
       /\ r.exc = ""
       /\ Store(r.h, Entered(kind, insts))
    /\ UNCHANGED <<kept, wrote>>

Top == stack[Len(stack)]

Popped == SubSeq(stack, 1, Len(stack) - 1)

\* the body of the innermost context manager ends normally: the generator
\* runs from its yield to its end
scope_exit ==
    /\ stack # <<>>
    /\ LET r == IF Top.kind = "happy"
                THEN synthetic_class_exit(Heap, Top.insts, Top.classes)
                ELSE cm_exit(Heap, Top.insts, Top.classes, Top.synths) IN
       Store(r.h, Popped)
    /\ UNCHANGED <<kept, wrote>>

\* the body of the innermost context manager raises: contextmanager throws the
\* exception into the generator at its yield, which no try statement
\* encloses, so the generator ends there and the exception goes on
body_raises ==
    /\ stack # <<>>
    /\ Store(Heap, [k \in 1..Len(stack) - 1 |-> [stack[k] EXCEPT !.body = "any", !.pre = <<>>]])
    /\ UNCHANGED <<kept, wrote>>

\* The calls a caller can make on the instances of I, with the descriptors
\* of D, and the context managers on the tuples of G; track says whether the
\* history variables kept and wrote follow the calls.
Calls(I, D, G, track) ==
    \/ \E i \in I, v \in Values : construct(i, v)
    \/ \E i \in I, n \in Names, d \in D, v \in Values : create_with_joy(i, n, d, v)
    \/ \E i \in I : make_happy(i)
    \/ \E i \in I : maybe_happy(i)
    \/ \E i \in I : make_sad(i)
    \/ \E i \in I : make_saddest(i)
    \/ \E i \in I, b \in BOOLEAN, n \in Names, d \in D : take_happy_pills(i, b, n, d, track)
    \/ \E i \in I, n \in Names, v \in Values : set_attribute(i, n, v, track)
    \/ \E i \in I, n \in Names : del_attribute(i, n, track)
    \/ \E insts \in G : happy_enter(insts)
    \/ \E insts \in G, kind \in {"sad", "saddest"} : sad_enter(kind, insts)
    \/ scope_exit
    \/ body_raises

\* ControlledSetter(MaxVal, on_set=p): one of each policy
Setters == {ControlledSetter(MaxVal, p) : p \in valid_on_set}

\* One instance, every call, a ControlledSetter of every policy.
Next == Calls({"m1"}, Setters, {<<"m1">>}, FALSE)

Spec == Init /\ [][Next]_vars

\* The same, with the history of the writes.
NextWrites == Calls({"m1"}, Setters, {<<"m1">>}, TRUE)

SpecWrites == Init /\ [][NextWrites]_vars

\* Two instances and the context managers on both at once: every call on the
\* first, with one ControlledSetter; the second is constructed, patched and
\* put in original state, which gives it each of the states never patched,
\* synthetic and original.
Sibling(i, d) ==
    \/ \E v \in Values : construct(i, v)
    \/ \E b \in BOOLEAN, n \in Names : take_happy_pills(i, b, n, d, FALSE)
    \/ make_sad(i)

NextGroup ==
    \/ Calls({"m1"}, {ControlledSetter(MaxVal, "pass")}, {<<"m1", "m2">>}, FALSE)
    \/ Sibling("m2", ControlledSetter(MaxVal, "pass"))

SpecGroup == Init /\ [][NextGroup]_vars

\* MemberView(T, 'parameter', on_set=p): one of each policy
Views == {MemberView(p) : p \in valid_on_set}

\* One instance, every call, a MemberView of every policy and a
\* ControlledSetter, and the owner of T writing T.parameter.
NextView ==
    \/ Calls({"m1"}, Views \cup {ControlledSetter(MaxVal, "pass")}, {<<"m1">>}, FALSE)
    \/ \E v \in Values : set_target(v)

SpecView == Init /\ [][NextView]_vars


\* ---- Properties

\* instance i is in synthetic state (InOriginal: in original state)
InSynthetic(i) == Constructed(i) /\ synth[i] # None /\ cls[i] = synth[i]

\* C1: when the body of a happy, sad or saddest scope raises, every instance
\* given to the scope is back to the class it had when the scope was entered
\* by the time the exception reaches the caller, and after a saddest scope
\* its _Xsynthetic_classX is set again.
C1_ErrorRestores ==
    [][body_raises =>
         \A k \in 1..Len(Top.insts) :
            /\ cls'[Top.insts[k]] = Top.classes[k]
            /\ Top.kind = "saddest" => synth'[Top.insts[k]] = Top.synths[k]]_vars

\* C2: the class of an instance is always its recorded original class or the
\* synthetic class it currently records, never another one.
C2_TwoTypes ==
    \A i \in Insts :
        Constructed(i) => cls[i] \in {_original_class(Heap, i), synth[i]}


\* C3: an instance in original state that goes through force_synthetic_class
\* and then force_original_class has the class it had before and the same
\* own attributes: same names, same values, absent names still absent.
C3_RoundTrip ==
    \A i \in Insts :
        (InOriginal(i) /\ Room(Unpatched(<<i>>))) =>
            LET a == force_synthetic_class(Heap, i)
                b == force_original_class(a.h, i)
            IN  /\ a.exc = "" /\ b.exc = ""
                /\ b.h.cls[i] = cls[i]
                /\ b.h.own[i] = own[i]

\* C4: with a ControlledSetter installed on n with bookkeep_attrs=True, and w
\* written to n in a sad scope while the instance is of its original class
\* (and n not written again in original state): (i) in synthetic state n
\* reads as the descriptor's value, and (ii) whenever the instance enters
\* original state later, n reads as w.
C4_OriginalWriteKept ==
    [][\A i \in Insts : \A n \in kept[i] :
          /\ (InSynthetic(i) /\ descriptors[cls[i]][n].kind = "ControlledSetter")
                => getattr(Heap, i, n) = descriptors[cls[i]][n].val
          /\ (wrote[i][n] # Absent /\ wrote'[i][n] = wrote[i][n]
              /\ ~InOriginal(i) /\ InOriginal(i)')
                => own'[i][n] = wrote[i][n]]_vars


\* the instance of snapshot p was in original state
WasOriginal(p) == p.cls = (IF p.orig # None THEN p.orig ELSE p.cls)

\* only happy scopes on the instances of the outermost one are open, and
\* nothing else has been called since the outermost one was entered
OnlyHappy ==
    /\ stack # <<>>
    /\ stack[1].body # "any"
    /\ \A k \in 1..Len(stack) : stack[k].kind = "happy" /\ stack[k].insts = stack[1].insts

\* C5: happy scopes nested on an instance that was in original state before
\* the outermost one: the exit of an inner scope leaves the instance in
\* synthetic state, and the exit of the outermost one puts it back in original
\* state with the own attributes it had before the scope.
C5_NestedHappy ==
    [][(scope_exit /\ OnlyHappy) =>
         \A i \in Insts : \A k \in 1..Len(stack[1].insts) :
            (stack[1].insts[k] = i /\ WasOriginal(stack[1].pre[k])) =>
                IF Len(stack) > 1
                THEN InSynthetic(i)'
                ELSE /\ InOriginal(i)'
                     /\ cls'[i] = stack[1].pre[k].cls
                     /\ own'[i] = stack[1].pre[k].own]_vars

\* C6: forget_synthetic_class followed by force_synthetic_class gives the
\* instance a synthetic class that is newly created, is not the discarded one,
\* has an empty bookeeping dictionary and none of the descriptors installed
\* before, and the instance is of that class.
C6_ForgetThenFresh ==
    \A i \in Insts :
        (Constructed(i) /\ Room(1)) =>
            LET a == forget_synthetic_class(Heap, i)
                b == force_synthetic_class(a.h, i)
                t == b.h.synth[i]
            IN  /\ a.exc = "" /\ b.exc = ""
                /\ t \in Types \ (1..ntypes)
                /\ t # synth[i]
                /\ b.h.bookeeping[t] = EmptyDict
                /\ b.h.descriptors[t] = NoDescrs
                /\ b.h.cls[i] = t

\* an instance whose synthetic class has a descriptor and a bookkept value,
\* and which forget and force take to another class
C6_Witness ==
    \E i \in Insts :
        /\ Constructed(i) /\ Room(1) /\ synth[i] # None
        /\ descriptors[synth[i]]["price"].kind = "ControlledSetter"
        /\ bookeeping[synth[i]]["price"] # Absent
        /\ force_synthetic_class(forget_synthetic_class(Heap, i).h, i).h.cls[i] = ntypes + 1

\* C7: force_synthetic_class is idempotent: in every reachable state a second
\* call leaves the class, _Xsynthetic_classX, the bookeeping dictionary, the
\* descriptors and the own attributes of the instance as the first call left
\* them.
C7_ForceIdempotent ==
    \A i \in Insts :
        (Constructed(i) /\ Room(Unpatched(<<i>>))) =>
            LET a == force_synthetic_class(Heap, i)
                b == force_synthetic_class(a.h, i)
            IN  /\ a.exc = "" /\ b.exc = ""
                /\ Snap(b.h, i) = Snap(a.h, i)

\* an instance in original state with a bookkept name it owns, under a
\* descriptor of another value: the first call stashes the name away
C7_Witness ==
    \E i \in Insts :
        /\ InOriginal(i) /\ synth[i] # None
        /\ own[i]["price"] # Absent
        /\ bookeeping[synth[i]]["price"] # Absent
        /\ descriptors[synth[i]]["price"].kind = "ControlledSetter"
        /\ descriptors[synth[i]]["price"].val # own[i]["price"]
        /\ LET a == force_synthetic_class(Heap, i) IN
           /\ a.h.own[i]["price"] = Absent
           /\ a.h.bookeeping[synth[i]]["price"] = own[i]["price"]

\* C8: once _Xoriginal_classX is recorded on an instance, no call changes it.
C8_OriginalRecordedOnce ==
    [][\A i \in Insts : orig[i] # None => orig'[i] = orig[i]]_vars

\* an instance that has forgotten its first synthetic class and got a second
\* one, with the original class it recorded first
C8_Witness ==
    \E i \in Insts :
        /\ orig[i] = Mango /\ ntypes > 1 /\ synth[i] = ntypes /\ cls[i] = ntypes

\* C9: a saddest scope with nothing called in its body: in the body the
\* instance has no _Xsynthetic_classX and is of its original class; after the
\* normal exit _Xsynthetic_classX is the class it was before the scope, with
\* the same bookeeping dictionary and descriptors, and the class of the
\* instance is the one it had before the scope.
C9_SaddestRestores ==
    [][(scope_exit /\ Top.kind = "saddest" /\ Top.body = "empty") =>
         \A i \in Insts : \A k \in 1..Len(Top.insts) :
            Top.insts[k] = i =>
                /\ synth[i] = None
                /\ cls[i] = _original_class(Heap, i)
                /\ synth'[i] = Top.pre[k].synth
                /\ Top.pre[k].synth # None =>
                      /\ bookeeping'[Top.pre[k].synth] = Top.pre[k].book
                      /\ descriptors'[Top.pre[k].synth] = Top.pre[k].descr
                /\ cls'[i] = Top.pre[k].cls]_vars

\* C10: a scope entered with several instances, with nothing called in its
\* body: after the normal exit each instance has the class and the own
\* attributes it had before the scope.
C10_GroupRestores ==
    [][(scope_exit /\ Len(Top.insts) > 1 /\ Top.body = "empty") =>
         \A i \in Insts : \A k \in 1..Len(Top.insts) :
            Top.insts[k] = i =>
                /\ cls'[i] = Top.pre[k].cls
                /\ own'[i] = Top.pre[k].own]_vars

\* what a caller can see of instance i: its class, its references, its own
\* attributes, its bookeeping dictionary and descriptors, and what it reads
Seen(h, i) == <<Snap(h, i), [n \in Names |-> getattr(h, i, n)]>>

\* C11: add_descriptors or force_synthetic_class on an instance changes
\* nothing of another instance (class, own attributes, bookeeping, reads) and
\* puts no descriptor on the original class, and no two instances have the
\* same synthetic class (and so the same bookeeping dictionary).
C11_SiblingsUntouched ==
    \A a \in Insts : \A b \in Insts \ {a} :
        (Constructed(a) /\ Constructed(b)) =>
            /\ (synth[a] # None => synth[a] # synth[b])
            /\ (IsSynthetic(cls[a]) => cls[a] # cls[b])
            /\ Room(Unpatched(<<a>>)) =>
                  /\ Seen(force_synthetic_class(Heap, a).h, b) = Seen(Heap, b)
                  /\ \A bk \in BOOLEAN, n \in Names, d \in Descriptors :
                        LET r == add_descriptors(Heap, a, bk, n, d) IN
                        /\ Seen(r.h, b) = Seen(Heap, b)
                        /\ r.exc = ""
                        /\ IsSynthetic(r.h.cls[a])
                        /\ r.h.cls[a] # _original_class(r.h, a)
                        /\ ~IsSynthetic(r.h.cls[b]) => ClassDescr(r.h, b, n) = NoDescr

\* two patched instances, one with a descriptor and a bookkept value, the
\* other of the original class with the name as its own attribute
C11_Witness ==
    \E a \in Insts : \E b \in Insts \ {a} :
        /\ InSynthetic(a) /\ InOriginal(b) /\ synth[b] # None
        /\ descriptors[synth[a]]["price"].kind = "ControlledSetter"
        /\ bookeeping[synth[a]]["price"] # Absent
        /\ own[b]["price"] # Absent
        /\ getattr(Heap, a, "price") # getattr(Heap, b, "price")

\* the descriptor that answers for name n on instance i
Installed(i, n) == ClassDescr(Heap, i, n)

\* C12: with a ControlledSetter(v, on_set='fail') on a name of an instance
\* in synthetic state, the name reads as v (the value every ControlledSetter
\* is made with here is MaxVal), every write to it raises, and the write
\* leaves everything as it was, so the name still reads as v after any number
\* of them.
C12_RejectKeepsValue ==
    \A i \in Insts : \A n \in Names :
        (Constructed(i) /\ Installed(i, n).kind = "ControlledSetter"
         /\ Installed(i, n).on_set = "fail") =>
            /\ getattr(Heap, i, n) = MaxVal
            /\ \A w \in Values :
                  LET r == setattr(Heap, i, n, w) IN
                  /\ r.exc = "Exception"
                  /\ r.h = Heap
                  /\ getattr(r.h, i, n) = MaxVal

\* an instance in synthetic state with a rejecting ControlledSetter on a
\* bookkept name, and a write of another value that raises
C12_Witness ==
    \E i \in Insts :
        /\ InSynthetic(i)
        /\ Installed(i, "price") = ControlledSetter(MaxVal, "fail")
        /\ bookeeping[synth[i]]["price"] = 1
        /\ setattr(Heap, i, "price", 1).exc = "Exception"

\* C13: with a descriptor of on_set='pass' on a name of an instance in
\* synthetic state, a write to the name raises nothing and changes neither
\* the descriptor, nor the own attributes, nor the bookeeping dictionary, and
\* the name reads after the write as it did before.
C13_IgnoreChangesNothing ==
    \A i \in Insts : \A n \in Names :
        (Constructed(i) /\ Installed(i, n).kind # "none"
         /\ Installed(i, n).on_set = "pass") =>
            \A w \in Values :
                LET r == setattr(Heap, i, n, w) IN
                /\ r.exc = ""
                /\ r.h = Heap
                /\ getattr(r.h, i, n) = getattr(Heap, i, n)

\* an ignoring ControlledSetter, and an ignoring MemberView, on a bookkept
\* name, and a write of a value that is not the one the name reads as
C13_Witness ==
    \E i \in Insts : \E w \in Values :
        /\ InSynthetic(i)
        /\ Installed(i, "price") = MemberView("pass")
        /\ bookeeping[synth[i]]["price"] # Absent
        /\ w # getattr(Heap, i, "price")
        /\ setattr(Heap, i, "price", w).exc = ""

\* C14: with a MemberView on a name of an instance in synthetic state, the
\* name reads as T.parameter is at the time of the read, also after
\* T.parameter was written directly; with on_set='set' a write through the
\* instance sets T.parameter to the value written and stores nothing on the
\* instance or in the descriptor.
C14_ViewForwards ==
    \A i \in Insts : \A n \in Names :
        (Constructed(i) /\ Installed(i, n).kind = "MemberView") =>
            /\ getattr(Heap, i, n) = target
            /\ \A v \in Values : getattr([Heap EXCEPT !.target = v], i, n) = v
            /\ Installed(i, n).on_set = "set" =>
                  \A w \in Values :
                      LET r == setattr(Heap, i, n, w) IN
                      /\ r.exc = ""
                      /\ r.h = [Heap EXCEPT !.target = w]
                      /\ getattr(r.h, i, n) = w

\* an applying MemberView on a name of an instance in synthetic state, with
\* T.parameter other than what it was at first and other than the value the
\* instance had for the name
C14_Witness ==
    \E i \in Insts :
        /\ InSynthetic(i)
        /\ Installed(i, "price") = MemberView("set")
        /\ target = MaxVal
        /\ bookeeping[synth[i]]["price"] = 1
        /\ setattr(Heap, i, "price", 1).h.target = 1

\* C15: maybe_synthetic_class on an instance with no _Xsynthetic_classX
\* (never patched, or after forget_synthetic_class) raises nothing, creates
\* no class and leaves the class, the own attributes and the recorded
\* original class as they are; after forget_synthetic_class the instance is
\* in original state and maybe_synthetic_class and force_original_class
\* leave it there.
C15_MaybeIsSilent ==
    \A i \in Insts :
        Constructed(i) =>
            /\ synth[i] = None =>
                  /\ maybe_synthetic_class(Heap, i) = Ok(Heap)
                  /\ force_original_class(Heap, i) = Ok(Heap)
            /\ LET f == forget_synthetic_class(Heap, i) IN
               /\ f.exc = ""
               /\ f.h.synth[i] = None
               /\ f.h.cls[i] = _original_class(f.h, i)
               /\ maybe_synthetic_class(f.h, i) = Ok(f.h)
               /\ force_original_class(f.h, i) = Ok(f.h)
               /\ force_original_class(maybe_synthetic_class(f.h, i).h, i) = Ok(f.h)

\* an instance that was patched and has forgotten its synthetic class, and
\* one in synthetic state with a descriptor that forget takes to that state
C15_Witness ==
    \E i \in Insts :
        /\ Constructed(i) /\ synth[i] = None /\ orig[i] = Mango /\ ntypes >= 1
        /\ own[i]["price"] # Absent

\* C16: on the normal exit of a happy, sad or saddest scope every instance
\* given to it is of the class it had when the scope was entered, whatever
\* was called in the body.
C16_ExitRestoresClass ==
    [][scope_exit =>
         \A i \in Insts : \A k \in 1..Len(Top.insts) :
            Top.insts[k] = i => cls'[i] = Top.classes[k]]_vars

\* C17: force_original_class, and the entry of a sad scope, on an instance
\* that is in original state change neither its class nor any of its own
\* attributes, bookkept names written since the last switch included.
C17_OriginalNoOp ==
    \A i \in Insts :
        InOriginal(i) =>
            LET r == force_original_class(Heap, i)
                e == cm_enter(FALSE, Heap, <<i>>)
            IN  /\ r.exc = "" /\ r.h.cls[i] = cls[i] /\ r.h.own[i] = own[i]
                /\ e.exc = "" /\ e.h.cls[i] = cls[i] /\ e.h.own[i] = own[i]

\* what name n of instance i is in original state: what the instance owns
\* when it is in original state, what it owns after force_original_class
\* when it is not
OriginalValue(h, i, n) ==
    IF h.cls[i] = _original_class(h, i) THEN h.own[i][n]
    ELSE force_original_class(h, i).h.own[i][n]

\* C18: add_descriptors with bookkeep_attrs=True does not change what the
\* instance shows in original state: at the next switch to original state
\* the name reads as it did in original state before the call, also when the
\* name already has a descriptor and a bookkept value.
C18_InstallKeepsOriginal ==
    \A i \in Insts : \A n \in Names : \A d \in Setters :
        (Constructed(i) /\ Room(Unpatched(<<i>>))) =>
            LET r == add_descriptors(Heap, i, TRUE, n, d) IN
            /\ r.exc = ""
            /\ OriginalValue(r.h, i, n) = OriginalValue(Heap, i, n)

\* C19: while an instance is of its synthetic class, no name of the
\* bookeeping dictionary of that class is an own attribute of the instance.
C19_BookkeptNotOwned ==
    \A i \in Insts : \A n \in Names :
        (InSynthetic(i) /\ bookeeping[synth[i]][n] # Absent) => own[i][n] = Absent

====
